---- MODULE Spec2Model ----
(***************************************************************************)
(* The ANTEX reader of package antex (ScanHeader, ReadAntexData,           *)
(* scanOneAntenna, parseOneFreq, parseOneAzi) as a state machine over a    *)
(* line scanner.                                                           *)
(*                                                                         *)
(* A physical line is a record [w, data, label]:                           *)
(*   w      the length of the line in bytes (len(buf)),                    *)
(*   data   the whitespace-separated tokens of columns 0..59; on a         *)
(*          TYPE / SERIAL NO line the four fixed column windows,           *)
(*   label  the words of buf[60:], <<>> when the line carries no label.    *)
(* Floating-point values are modelled by the integers the tokens denote.   *)
(***************************************************************************)
EXTENDS Integers, Sequences, FiniteSets, TLC

VARIABLES
    lines,      \* the lines the scanner will yield
    pos,        \* number of lines consumed so far (s.LineNumber())
    pc,         \* position of the program
    ant,        \* ReadAntexData: the antennas appended so far
    errOf,      \* errOf[k]: the error scanOneAntenna returned with ant[k]
    antStart,   \* scanOneAntenna: cursor at entry (line of START OF ANTENNA)
    a,          \* scanOneAntenna: the antenna under construction
    dazi, zen1, zen2, dzen, nf,   \* scanOneAntenna: grid parameters
    e,          \* scanOneAntenna: error of the current iteration
    err,        \* scanOneAntenna: returned error
    buf,        \* parseOneFreq: the current line
    p,          \* parseOneFreq: the grid under construction
    perr,       \* parseOneFreq: returned error
    row,        \* parseOneFreq: az, vals, e of the row parsed last
    i,          \* parseOneFreq: index of the azimuth row being read
    antexVer, satSys, pcvType, refAnt, h,  \* ScanHeader: results
    satDatas,   \* CalcPos: the argument
    mats,       \* CalcPos: B, r, i0, err of constructBancroftMatrices
    quad,       \* CalcPos: u, v and lam1, lam2, err of solveBancroftQuadraticEq
    ret         \* CalcPos: the returned x, y, z, dt, err

vars == <<lines, pos, pc, ant, errOf, antStart, a, dazi, zen1, zen2, dzen, nf,
          e, err, buf, p, perr, row, i, antexVer, satSys, pcvType, refAnt, h,
          satDatas, mats, quad, ret>>

bodyVars == <<ant, errOf, antStart, a, dazi, zen1, zen2, dzen, nf, e, err,
              buf, p, perr, row, i>>

headerVars == <<antexVer, satSys, pcvType, refAnt, h>>

bancroftVars == <<satDatas, mats, quad, ret>>

----------------------------------------------------------------------------
(* Bounds of the model *)

\* numeric tokens denote the integers -MaxNum..MaxNum
MaxNum == 400
\* values of the PCV rows are drawn from 1..MaxVal
MaxVal == 2
\* well-formed antenna blocks placed after the block under test
MaxAfter == 1
\* lines of a header input
MaxHeaderLines == 4

----------------------------------------------------------------------------
(* Program constants *)

\* column at which the label starts: buf[60:]
LabelCol == 60
\* minimum width of a line that carries a label: len(buf) < 61
MinWidth == 61
\* the full circle of line 319: int(360./dazi) + 1
FullCircle == 360

----------------------------------------------------------------------------
(* Errors: the chain of messages, outermost first, and the line number the  *)
(* message reports (0 when it reports none).  nil is the empty chain.       *)

NoErr == [chain |-> <<>>, line |-> 0]

NewErr(msg, ln) == [chain |-> <<msg>>, line |-> ln]

\* fmt.Errorf("... %w", inner)
Wrap(msg, ln, inner) ==
    [chain |-> <<msg>> \o inner.chain, line |-> IF ln # 0 THEN ln ELSE inner.line]

IsNil(x) == x.chain = <<>>

----------------------------------------------------------------------------
(* Tokens and their conversions *)

NumRange == (-MaxNum)..MaxNum

IntTok(n) == ToString(n)
DecTok(n) == ToString(n) \o ".0"

\* a one-digit number written in two columns, as in "G01"
PadTok(n) == "0" \o ToString(n)

IntTokens == {IntTok(n) : n \in NumRange} \cup {PadTok(n) : n \in 0..9}
DecTokens == {DecTok(n) : n \in NumRange}

FloatTable ==
    [t \in IntTokens \cup DecTokens |->
        CHOOSE n \in NumRange :
            \/ t = IntTok(n)
            \/ t = DecTok(n)
            \/ n \in 0..9 /\ t = PadTok(n)]

IntTable ==
    [t \in IntTokens |->
        CHOOSE n \in NumRange : t = IntTok(n) \/ (n \in 0..9 /\ t = PadTok(n))]

\* strconv.ParseFloat(t, 64): the value and whether it parsed; 0 on error
ParseFloat(t) ==
    IF t \in DOMAIN FloatTable
    THEN [v |-> FloatTable[t], ok |-> TRUE]
    ELSE [v |-> 0, ok |-> FALSE]

\* strconv.Atoi(t)
Atoi(t) ==
    IF t \in DOMAIN IntTable
    THEN [v |-> IntTable[t], ok |-> TRUE]
    ELSE [v |-> 0, ok |-> FALSE]

\* strings.TrimSpace(buf[:60]) handed to a number parser: one token parses,
\* an empty field or a field with inner blanks does not
ParseFloatField(data) ==
    IF Len(data) = 1 THEN ParseFloat(data[1]) ELSE [v |-> 0, ok |-> FALSE]

AtoiField(data) ==
    IF Len(data) = 1 THEN Atoi(data[1]) ELSE [v |-> 0, ok |-> FALSE]

\* strings.HasPrefix on label text, taken word by word
HasPrefix(s, pre) ==
    /\ Len(s) >= Len(pre)
    /\ SubSeq(s, 1, Len(pre)) = pre

\* strings.Fields(buf) of the whole line
Fields(l) == l.data \o l.label

----------------------------------------------------------------------------
(* Labels *)

LStartAnt   == <<"START", "OF", "ANTENNA">>
LEndAnt     == <<"END", "OF", "ANTENNA">>
LType       == <<"TYPE", "/", "SERIAL", "NO">>
LMeth       == <<"METH", "/", "BY", "/", "#", "/", "DATE">>
LDazi       == <<"DAZI">>
LZen        == <<"ZEN1", "/", "ZEN2", "/", "DZEN">>
LNFreq      == <<"#", "OF", "FREQUENCIES">>
LValidFrom  == <<"VALID", "FROM">>
LValidUntil == <<"VALID", "UNTIL">>
LSinex      == <<"SINEX", "CODE">>
LStartFreq  == <<"START", "OF", "FREQUENCY">>
LEndFreq    == <<"END", "OF", "FREQUENCY">>
LNeu        == <<"NORTH", "/", "EAST", "/", "UP">>
LComment    == <<"COMMENT">>
LVersion    == <<"ANTEX", "VERSION", "/", "SYST">>
LPcvType    == <<"PCV", "TYPE", "/", "REFANT">>
LEndHeader  == <<"END", "OF", "HEADER">>

----------------------------------------------------------------------------
(* Lines *)

\* a line with data in columns 0..59 and a label from column 60 on
Labelled(data, label) == [w |-> LabelCol + Len(label), data |-> data, label |-> label]
\* a data row that runs past column 60 and carries no label
LongRow(data) == [w |-> MinWidth, data |-> data, label |-> <<>>]
\* a line shorter than 60 bytes
ShortRow(data) == [w |-> Len(data), data |-> data, label |-> <<>>]
\* a line of exactly 60 bytes
Row60(data) == [w |-> LabelCol, data |-> data, label |-> <<>>]
\* the empty string nextLine returns at the end of the input
EmptyLine == [w |-> 0, data |-> <<>>, label |-> <<>>]

\* buf[60:] panics (slice bounds out of range) on a line shorter than 60 bytes
SliceOK(l) == l.w >= LabelCol

\* strings.HasSuffix(strings.TrimRight(buf, " "), "COMMENT")
EndsWithComment(l) ==
    /\ Len(Fields(l)) > 0
    /\ Fields(l)[Len(Fields(l))] = "COMMENT"

----------------------------------------------------------------------------
(* Records *)

ZeroTime == <<>>

ZeroPco == [N |-> 0, E |-> 0, U |-> 0]

ZeroPcv ==
    [Sys |-> "", Freq |-> 0, Zen1 |-> 0, Zen2 |-> 0, Dzen |-> 0, Dazi |-> 0,
     Nazi |-> 0, Nzen |-> 0, PCO |-> ZeroPco,
     Vnonaz |-> <<>>, Vaz |-> <<>>, Azs |-> <<>>]

ZeroAnt ==
    [Type |-> "", S1 |-> "", S2 |-> "", S3 |-> "", PCV |-> <<>>,
     isSatelliteAntenna |-> FALSE,
     ValidFrom |-> ZeroTime, ValidUntil |-> ZeroTime, SinexCode |-> ""]

IsSatAnt(x) == x.isSatelliteAntenna

\* az, vals and e of parseOneFreq before a row is parsed
ZeroRow == [az |-> "", v |-> <<>>, e |-> [chain |-> <<>>, line |-> 0]]

----------------------------------------------------------------------------
(* Pure functions of the parser *)

\* the column window k of a TYPE / SERIAL NO line, trimmed
Window(l, k) == IF k <= Len(l.data) THEN l.data[k] ELSE ""

\* conversion of a float64 quotient x/y to int: truncation toward zero
TruncDiv(x, y) ==
    LET ax == IF x < 0 THEN -x ELSE x
        ay == IF y < 0 THEN -y ELSE y
        q  == ax \div ay
    IN  IF (x < 0) # (y < 0) THEN -q ELSE q

\* the most negative int, standing for the result of converting an infinite
\* or NaN float64 to int, which the language leaves to the implementation
IntMin == -(2^30)

\* int(x/0) + 1: amd64 yields the most negative int for NaN and both
\* infinities, arm64 yields 0 for NaN and saturates on the infinities
\* (the + 1 then wraps the largest int to the most negative one)
ImplDefCount(x) ==
    IF x = 0 THEN {IntMin + 1, 1}
    ELSE IF x > 0 THEN {IntMin + 1, IntMin}
    ELSE {IntMin + 1}

\* NaziOf without the "+ 1" of line 319
NaziOfBug(dz) == IF dz = 0 THEN 0 ELSE TruncDiv(FullCircle, dz)

\* nazi of lines 316-320
NaziOf(dz) == IF dz = 0 THEN 0 ELSE TruncDiv(FullCircle, dz) + 1

\* nzen of line 321: the set of values a build may compute
NzenOf(z1, z2, dz) ==
    IF dz = 0 THEN ImplDefCount(z2 - z1) ELSE {TruncDiv(z2 - z1, dz) + 1}

\* parseOneAzi that parses the key as a number too
parseOneAziKeyed(l) ==
    LET sep == Fields(l)
        bad == {k \in 1..Len(sep) : ~ParseFloat(sep[k]).ok}
    IN  IF Len(sep) = 0
        THEN [az |-> "", v |-> <<>>, e |-> NewErr("no phase variation found", 0)]
        ELSE [az |-> sep[1],
              v  |-> [k \in 1..(Len(sep) - 1) |-> ParseFloat(sep[k + 1]).v],
              e  |-> IF bad = {} THEN NoErr
                     ELSE Wrap("failed to parse val", 0, NewErr("strconv.ParseFloat", 0))]

\* parseOneAzi: the key, the values and the error of one data row
parseOneAzi(l) ==
    LET sep == Fields(l)
        bad == {k \in 2..Len(sep) : ~ParseFloat(sep[k]).ok}
        first == IF bad = {} THEN Len(sep) + 1
                 ELSE CHOOSE k \in bad : \A m \in bad : k <= m
    IN  IF Len(sep) = 0
        THEN [az |-> "", v |-> <<>>, e |-> NewErr("no phase variation found", 0)]
        ELSE [az |-> sep[1],
              v  |-> [k \in 1..(Len(sep) - 1) |->
                        IF k + 1 < first THEN ParseFloat(sep[k + 1]).v ELSE 0],
              e  |-> IF bad = {} THEN NoErr
                     ELSE Wrap("failed to parse val", 0, NewErr("strconv.ParseFloat", 0))]

\* nextLine of parseOneFreq: the closure tests the captured buf, which is the
\* line read before, and not the line it has just scanned
nextLine(prev, ls, ps) ==
    IF ps >= Len(ls) THEN [line |-> EmptyLine, pos |-> ps]
    ELSE IF ~EndsWithComment(prev) THEN [line |-> ls[ps + 1], pos |-> ps + 1]
    ELSE [line |-> EmptyLine, pos |-> Len(ls)]

\* the years of the date lines, four digits each
YearTokens == {"1992", "2008"}

\* parseDate that reports no error
parseDateLenient(data) == [t |-> <<>>, e |-> [chain |-> <<>>, line |-> 0]]

\* parseDate: time.Parse with the layout of line 413, on the six fields
\* year, month, day, hour, minute, second; the ranges are those time.Parse
\* checks (the day against 31 only)
parseDate(data) ==
    LET n(k) == Atoi(data[k])
        sec == ParseFloat(data[6])
        ok == /\ Len(data) = 6
              /\ data[1] \in YearTokens
              /\ \A k \in 2..5 : n(k).ok
              /\ sec.ok
              /\ n(2).v \in 1..12 /\ n(3).v \in 1..31
              /\ n(4).v \in 0..23 /\ n(5).v \in 0..59 /\ sec.v \in 0..59
    IN  IF ok THEN [t |-> <<data[1], n(2).v, n(3).v, n(4).v, n(5).v, sec.v>>,
                    e |-> NoErr]
        ELSE [t |-> ZeroTime, e |-> NewErr("time.Parse", 0)]

\* index of the first line after ps where the scan loop stops: a line for
\* which stop holds, or Len(ls) + 1 when there is none
FirstAfter(ls, ps, stop(_)) ==
    LET hits == {k \in (ps + 1)..Len(ls) : stop(ls[k])}
    IN  IF hits = {} THEN Len(ls) + 1
        ELSE CHOOSE k \in hits : \A m \in hits : k <= m

\* strings.TrimSpace(buf[:60]) of a text field: the tokens with the blanks
\* between them
RECURSIVE JoinText(_)
JoinText(data) ==
    IF Len(data) = 0 THEN ""
    ELSE IF Len(data) = 1 THEN data[1]
    ELSE data[1] \o " " \o JoinText(Tail(data))

\* the frequency code of a START OF FREQUENCY line ("   G01"): buf[3] is the
\* system and buf[4:6] the frequency number
Systems == {"G", "R"}
FreqTexts == {PadTok(n) : n \in 0..9} \cup {"xx"}
CodeTable ==
    [c \in {sy \o ft : sy \in Systems, ft \in FreqTexts} |->
        CHOOSE sf \in Systems \X FreqTexts : sf[1] \o sf[2] = c]

\* buf[3] and buf[4:6] of a START OF FREQUENCY line
SysCol(l) ==
    IF Len(l.data) >= 1 /\ l.data[1] \in DOMAIN CodeTable
    THEN CodeTable[l.data[1]][1] ELSE " "
FreqCols(l) ==
    IF Len(l.data) >= 1 /\ l.data[1] \in DOMAIN CodeTable
    THEN CodeTable[l.data[1]][2] ELSE "  "

----------------------------------------------------------------------------
(* ReadAntexData *)

\* line 125: s.Scan() is false, the loop ends and ant is returned
RAD_Return ==
    /\ pc = "rad"
    /\ pos >= Len(lines)
    /\ pc' = "done"
    /\ UNCHANGED <<lines, pos, bodyVars, headerVars, bancroftVars>>

\* lines 126-137, a line that does not start an antenna; buf[60:] panics on
\* a line shorter than 60 bytes
RAD_Skip ==
    /\ pc = "rad"
    /\ pos < Len(lines)
    /\ LET l == lines[pos + 1] IN
        /\ ~(SliceOK(l) /\ HasPrefix(l.label, LStartAnt))
        /\ pc' = IF SliceOK(l) THEN "rad" ELSE "panic"
    /\ pos' = pos + 1
    /\ UNCHANGED <<lines, bodyVars, headerVars, bancroftVars>>

\* lines 131-132 and 144-150: START OF ANTENNA, scanOneAntenna is entered
RAD_Start ==
    /\ pc = "rad"
    /\ pos < Len(lines)
    /\ SliceOK(lines[pos + 1])
    /\ HasPrefix(lines[pos + 1].label, LStartAnt)
    /\ pos' = pos + 1
    /\ antStart' = pos + 1
    /\ a' = ZeroAnt
    /\ dazi' = 0 /\ zen1' = 0 /\ zen2' = 0 /\ dzen' = 0 /\ nf' = 0
    /\ e' = NoErr /\ err' = NoErr
    /\ pc' = "soa"
    /\ UNCHANGED <<lines, ant, errOf, buf, p, perr, i, row, headerVars, bancroftVars>>

\* lines 132-136: the error is logged and the antenna appended
RAD_Append ==
    /\ pc = "soaRet"
    /\ ant' = Append(ant, a)
    /\ errOf' = Append(errOf, err)
    /\ pc' = "rad"
    /\ UNCHANGED <<lines, pos, antStart, a, dazi, zen1, zen2, dzen, nf, e, err,
                   buf, p, perr, i, row, headerVars, bancroftVars>>

----------------------------------------------------------------------------
(* scanOneAntenna *)

EndLabelNotFound == NewErr("End of freq label not found", 0)

\* lines 174 and 247-251: the input ends inside the block
SOA_Eof ==
    /\ pc = "soa"
    /\ pos >= Len(lines)
    /\ err' = EndLabelNotFound
    /\ pc' = "soaRet"
    /\ UNCHANGED <<lines, pos, ant, errOf, antStart, a, dazi, zen1, zen2, dzen,
                   nf, e, buf, p, perr, i, row, headerVars, bancroftVars>>

\* lines 175-181 and 247-251: a line shorter than 61 bytes breaks the loop
\* with e = nil, and the error of line 249 is returned
SOA_Short ==
    /\ pc = "soa"
    /\ pos < Len(lines)
    /\ lines[pos + 1].w < MinWidth
    /\ pos' = pos + 1
    /\ e' = NoErr
    /\ err' = EndLabelNotFound
    /\ pc' = "soaRet"
    /\ UNCHANGED <<lines, ant, errOf, antStart, a, dazi, zen1, zen2, dzen, nf,
                   buf, p, perr, i, row, headerVars, bancroftVars>>

StrconvFloat == NewErr("strconv.ParseFloat", 0)
StrconvAtoi == NewErr("strconv.Atoi", 0)

\* lines 185-221: the effect of one labelled line on the locals of
\* scanOneAntenna; st holds a, dazi, zen1, zen2, dzen, nf before the line
FieldEffect(l, st) ==
    LET st0 == [st EXCEPT !.e = NoErr] IN
    CASE l.label = LType ->
            [st0 EXCEPT !.a.Type = Window(l, 1), !.a.S1 = Window(l, 2),
                        !.a.S2 = Window(l, 3), !.a.S3 = Window(l, 4)]
      [] l.label = LDazi ->
            LET r == ParseFloatField(l.data) IN
            [st0 EXCEPT !.dazi = r.v,
                        !.e = IF r.ok THEN NoErr ELSE StrconvFloat]
      [] l.label = LZen ->
            IF Len(l.data) < 3 THEN st0
            ELSE LET r1 == ParseFloat(l.data[1])
                     r2 == ParseFloat(l.data[2])
                     r3 == ParseFloat(l.data[3])
                 IN  [st0 EXCEPT !.zen1 = r1.v, !.zen2 = r2.v, !.dzen = r3.v,
                                 !.e = IF r1.ok /\ r2.ok /\ r3.ok THEN NoErr
                                       ELSE StrconvFloat]
      [] l.label = LNFreq ->
            LET r == AtoiField(l.data) IN
            [st0 EXCEPT !.nf = r.v, !.e = IF r.ok THEN NoErr ELSE StrconvAtoi]
      [] l.label = LValidFrom ->
            LET r == parseDate(l.data) IN
            [st0 EXCEPT !.a.ValidFrom = r.t, !.e = r.e]
      [] l.label = LValidUntil ->
            LET r == parseDate(l.data) IN
            [st0 EXCEPT !.a.ValidUntil = r.t, !.e = r.e]
      [] l.label = LSinex ->
            [st0 EXCEPT !.a.SinexCode = JoinText(l.data)]
      [] OTHER -> st0

\* lines 175-244: a labelled line other than START OF FREQUENCY and
\* END OF ANTENNA; an error breaks the loop
SOA_Field ==
    /\ pc = "soa"
    /\ pos < Len(lines)
    /\ LET l == lines[pos + 1]
           st == FieldEffect(l, [a |-> a, dazi |-> dazi, zen1 |-> zen1,
                                 zen2 |-> zen2, dzen |-> dzen, nf |-> nf,
                                 e |-> e])
       IN  /\ l.w >= MinWidth
           /\ l.label # LStartFreq
           /\ l.label # LEndAnt
           /\ a' = st.a /\ dazi' = st.dazi /\ zen1' = st.zen1
           /\ zen2' = st.zen2 /\ dzen' = st.dzen /\ nf' = st.nf
           /\ e' = st.e
           /\ pc' = IF IsNil(st.e) THEN "soa" ELSE "resync"
    /\ pos' = pos + 1
    /\ UNCHANGED <<lines, ant, errOf, antStart, err, buf, p, perr, i, row, headerVars, bancroftVars>>

\* lines 236-238: END OF ANTENNA, the success return
SOA_End ==
    /\ pc = "soa"
    /\ pos < Len(lines)
    /\ lines[pos + 1].w >= MinWidth
    /\ lines[pos + 1].label = LEndAnt
    /\ pos' = pos + 1
    /\ e' = NoErr
    /\ err' = NoErr
    /\ pc' = "soaRet"
    /\ UNCHANGED <<lines, ant, errOf, antStart, a, dazi, zen1, zen2, dzen, nf,
                   buf, p, perr, i, row, headerVars, bancroftVars>>

\* lines 222-223 and 279-284: START OF FREQUENCY, parseOneFreq is entered
\* and reads the system and the frequency number off the line
SOA_StartFreq ==
    /\ pc = "soa"
    /\ pos < Len(lines)
    /\ LET l == lines[pos + 1]
           r == Atoi(FreqCols(l))
       IN  /\ l.w >= MinWidth
           /\ l.label = LStartFreq
           /\ buf' = l
           /\ p' = [ZeroPcv EXCEPT !.Sys = SysCol(l), !.Freq = r.v]
           /\ perr' = IF r.ok THEN NoErr ELSE StrconvAtoi
           /\ pc' = IF r.ok THEN "pof" ELSE "pofRet"
    /\ pos' = pos + 1
    /\ e' = NoErr
    /\ i' = 0
    /\ row' = ZeroRow
    /\ UNCHANGED <<lines, ant, errOf, antStart, a, dazi, zen1, zen2, dzen, nf,
                   err, headerVars, bancroftVars>>

\* the grid with the antenna's parameters, as lines 230-233 store them
WithParams(g, dz, z1, z2, dzn) ==
    [g EXCEPT !.Dazi = dz, !.Zen1 = z1, !.Zen2 = z2, !.Dzen = dzn]

\* lines 223-234 and 242-244: parseOneFreq has returned (p, e1)
SOA_FreqReturn ==
    /\ pc = "pofRet"
    /\ IF IsNil(perr)
       THEN /\ a' = [a EXCEPT !.PCV = Append(@, WithParams(p, dazi, zen1, zen2, dzen))]
            /\ e' = NoErr
            /\ pc' = "soa"
       ELSE /\ a' = a
            /\ e' = Wrap("error in pcv data", 0, perr)
            /\ pc' = "resync"
    /\ UNCHANGED <<lines, pos, ant, errOf, antStart, dazi, zen1, zen2, dzen, nf,
                   err, buf, p, perr, i, row, headerVars, bancroftVars>>

\* the test of line 257 on a line met while advancing to END OF ANTENNA
IsEndAnt(l) == l.w > LabelCol /\ HasPrefix(l.label, LEndAnt)

\* lines 253-264: after an error the cursor advances to the END OF ANTENNA
\* label, or to the end of the input, and the error is returned
SOA_Resync ==
    /\ pc = "resync"
    /\ LET k == FirstAfter(lines, pos, IsEndAnt) IN
        pos' = IF k <= Len(lines) THEN k ELSE Len(lines)
    /\ err' = e
    /\ pc' = "soaRet"
    /\ UNCHANGED <<lines, ant, errOf, antStart, a, dazi, zen1, zen2, dzen, nf,
                   e, buf, p, perr, i, row, headerVars, bancroftVars>>

----------------------------------------------------------------------------
(* parseOneFreq *)

\* the test of line 294 on a line met while advancing to END OF FREQUENCY
\* after a short NORTH / EAST / UP line: the loop stops at the label, and at
\* a line shorter than 60 bytes, where buf[60:] panics
StopsPcoScan(l) == ~SliceOK(l) \/ HasPrefix(l.label, LEndFreq)

\* the test of line 375 on a line met while advancing after a misplaced
\* END OF FREQUENCY: len(buf) > 60 ends the scan with an error, a line
\* shorter than 60 bytes makes buf[60:] panic, a line of 60 bytes is skipped
StopsEndScan(l) == l.w # LabelCol

\* lines 326-327: make() panics on a negative length
MakeOK(n) == n >= 0

\* lines 286-327: the line after START OF FREQUENCY, the phase center
\* offset when the line carries one, and the grid dimensions
POF_Pco ==
    /\ pc = "pof"
    /\ LET nl == nextLine(buf, lines, pos)
           b  == nl.line
           sep == b.data
           k  == FirstAfter(lines, nl.pos, StopsPcoScan)
           r1 == ParseFloat(sep[1])
           r2 == ParseFloat(sep[2])
           r3 == ParseFloat(sep[3])
           nazi == NaziOf(dazi)
       IN
       IF ~SliceOK(b)
       THEN \* line 287: buf[60:] on a short line, or on "" at the end of input
            /\ pc' = "panic" /\ pos' = nl.pos /\ buf' = b
            /\ UNCHANGED <<p, perr>>
       ELSE IF HasPrefix(b.label, LNeu) /\ Len(sep) < 3
       THEN \* lines 290-298, then line 300 when the label is never found
            IF k <= Len(lines) /\ SliceOK(lines[k])
            THEN /\ pc' = "pofRet" /\ pos' = k /\ buf' = lines[k]
                 /\ perr' = NoErr /\ UNCHANGED p
            ELSE /\ pc' = "panic"
                 /\ pos' = IF k <= Len(lines) THEN k ELSE Len(lines)
                 /\ buf' = IF k <= Len(lines) THEN lines[k] ELSE b
                 /\ UNCHANGED <<p, perr>>
       ELSE IF HasPrefix(b.label, LNeu) /\ ~(r1.ok /\ r2.ok /\ r3.ok)
       THEN \* lines 300-308
            /\ pc' = "pofRet" /\ pos' = nl.pos /\ buf' = b
            /\ perr' = StrconvFloat /\ UNCHANGED p
       ELSE \* lines 311-327
            /\ pos' = nl.pos /\ buf' = b
            /\ \E nzen \in NzenOf(zen1, zen2, dzen) :
                 p' = [p EXCEPT
                         !.PCO = IF HasPrefix(b.label, LNeu)
                                 THEN [N |-> r1.v, E |-> r2.v, U |-> r3.v]
                                 ELSE @,
                         !.Nzen = nzen, !.Nazi = nazi,
                         !.Vaz = IF MakeOK(nazi) THEN [j \in 1..nazi |-> <<>>] ELSE @,
                         !.Azs = IF MakeOK(nazi) THEN [j \in 1..nazi |-> 0] ELSE @]
            /\ pc' = IF MakeOK(nazi) THEN "noazi" ELSE "panic"
            /\ UNCHANGED perr
    /\ UNCHANGED <<lines, ant, errOf, antStart, a, dazi, zen1, zen2, dzen, nf,
                   e, err, i, row, headerVars, bancroftVars>>

\* RowError with a check the code does not have: the key of an azimuth row
\* must exceed the key of the row before it
RowErrorOrdered(r, noazi, nzen, ln) ==
    IF ~IsNil(r.e) THEN Wrap("line", ln, r.e)
    ELSE IF noazi /\ r.az # "NOAZI" THEN NewErr("NOAZI not found", ln)
    ELSE IF ~noazi /\ r.az = "NOAZI"
         THEN NewErr("NOAZI found at azimuth dependent values", ln)
    ELSE IF ~noazi /\ i > 0 /\ ParseFloat(r.az).v <= p.Azs[i]
         THEN NewErr("azimuth out of order", ln)
    ELSE IF Len(r.v) # nzen THEN NewErr("invalid values", ln)
    ELSE NoErr

\* lines 334-341 and 350-357: the checks of one parsed row; noazi tells
\* whether the row is the NOAZI row or an azimuth row.  NoErr when it passes
RowError(r, noazi, nzen, ln) ==
    IF ~IsNil(r.e) THEN Wrap("line", ln, r.e)
    ELSE IF noazi /\ r.az # "NOAZI" THEN NewErr("NOAZI not found", ln)
    ELSE IF ~noazi /\ r.az = "NOAZI"
         THEN NewErr("NOAZI found at azimuth dependent values", ln)
    ELSE IF Len(r.v) # nzen THEN NewErr("invalid values", ln)
    ELSE NoErr

\* lines 329-342: the NOAZI row
POF_Noazi ==
    /\ pc = "noazi"
    /\ LET nl == nextLine(buf, lines, pos)
           r  == parseOneAzi(nl.line)
           er == RowError(r, TRUE, p.Nzen, nl.pos)
       IN  /\ pos' = nl.pos /\ buf' = nl.line /\ row' = r
           /\ perr' = er
           /\ p' = IF IsNil(er) THEN [p EXCEPT !.Vnonaz = r.v] ELSE p
           /\ pc' = IF IsNil(er) THEN "azi" ELSE "pofRet"
    /\ i' = 0
    /\ UNCHANGED <<lines, ant, errOf, antStart, a, dazi, zen1, zen2, dzen, nf,
                   e, err, headerVars, bancroftVars>>

\* lines 345-365: one azimuth row
POF_Azi ==
    /\ pc = "azi"
    /\ i < p.Nazi
    /\ LET nl == nextLine(buf, lines, pos)
           r  == parseOneAzi(nl.line)
           er == RowError(r, FALSE, p.Nzen, nl.pos)
           f  == ParseFloat(r.az)
       IN  /\ pos' = nl.pos /\ buf' = nl.line
           /\ row' = [r EXCEPT !.e = IF IsNil(er) /\ ~f.ok THEN StrconvFloat ELSE @]
           /\ IF ~IsNil(er)
              THEN /\ perr' = er /\ p' = p /\ pc' = "pofRet"
              ELSE /\ p' = [p EXCEPT !.Vaz[i + 1] = r.v, !.Azs[i + 1] = f.v]
                   /\ perr' = IF f.ok THEN NoErr
                              ELSE NewErr("invalid az found", nl.pos)
                   /\ pc' = IF f.ok THEN "azi" ELSE "pofRet"
    /\ i' = i + 1
    /\ UNCHANGED <<lines, ant, errOf, antStart, a, dazi, zen1, zen2, dzen, nf,
                   e, err, headerVars, bancroftVars>>

\* lines 367-383: the line after the last row must carry END OF FREQUENCY
POF_End ==
    /\ pc = "azi"
    /\ i >= p.Nazi
    /\ LET nl == nextLine(buf, lines, pos)
           b  == nl.line
           k  == FirstAfter(lines, nl.pos, StopsEndScan)
       IN
       IF b.w >= MinWidth /\ HasPrefix(b.label, LEndFreq)
       THEN /\ pos' = nl.pos /\ buf' = b /\ perr' = NoErr /\ pc' = "pofRet"
       ELSE IF k > Len(lines)
       THEN /\ pos' = Len(lines)
            /\ buf' = IF nl.pos < Len(lines) THEN lines[Len(lines)] ELSE b
            /\ perr' = NewErr("'END OF FREQUENCY' not found", Len(lines))
            /\ pc' = "pofRet"
       ELSE /\ pos' = k /\ buf' = lines[k]
            /\ perr' = IF lines[k].w > LabelCol
                       THEN NewErr("invalid 'END OF FREQUENCY' position", k)
                       ELSE perr
            /\ pc' = IF lines[k].w > LabelCol THEN "pofRet" ELSE "panic"
    /\ UNCHANGED <<lines, ant, errOf, antStart, a, dazi, zen1, zen2, dzen, nf,
                   e, err, p, i, row, headerVars, bancroftVars>>

----------------------------------------------------------------------------
(* Inputs of ReadAntexData: the lines of the body of a file *)

StartAnt == Labelled(<<>>, LStartAnt)
EndAnt == Labelled(<<>>, LEndAnt)
Comment == Labelled(<<"text">>, LComment)
\* receiver antenna: type and serial number; satellite antenna: all four
TypeRec == Labelled(<<"AOAD/M_T", "1234">>, LType)
TypeSat == Labelled(<<"BLOCK IIA", "G01", "G032", "1992-079A">>, LType)
DaziLine(t) == Labelled(<<t>>, LDazi)
ZenLine(ts) == Labelled(ts, LZen)
NFreqLine(t) == Labelled(<<t>>, LNFreq)
StartFreq(c) == Labelled(<<c>>, LStartFreq)
EndFreq(c) == Labelled(<<c>>, LEndFreq)
NeuLine(ts) == Labelled(ts, LNeu)
NoaziRow(ts) == ShortRow(<<"NOAZI">> \o ts)
NoaziLong(ts) == LongRow(<<"NOAZI">> \o ts)
AzRow(az, ts) == ShortRow(<<az>> \o ts)
Blank == ShortRow(<<>>)
ValidFromLine(ts) == Labelled(ts, LValidFrom)
ValidUntilLine(ts) == Labelled(ts, LValidUntil)
SinexLine == Labelled(<<"IGS14_2247">>, LSinex)
GoodDate == <<"1992", "11", "22", "0", "0", "0.0">>
\* month 13
BadDate == <<"1992", "13", "22", "0", "0", "0.0">>

ValueTokens == {IntTok(v) : v \in 1..MaxVal}
\* the rows of a grid with two zenith angles
Rows2 == {<<x, y>> : x \in ValueTokens, y \in ValueTokens}

Zen011 == ZenLine(<<"0", "1", "1">>)
Neu3 == NeuLine(<<"279", "0.0", "-5">>)
Neu2 == NeuLine(<<"279", "0.0">>)
NeuBad == NeuLine(<<"279", "x", "-5">>)

\* a well-formed antenna: no azimuth rows, two zenith angles, one frequency
GoodBlock ==
    <<StartAnt, TypeSat, DaziLine("0"), Zen011, StartFreq("G01"), Neu3,
      NoaziRow(<<"2", "1">>), EndFreq("G01"), EndAnt>>

\* the lines between TYPE / SERIAL NO and the first frequency
DaziParts == {<<DaziLine("0")>>, <<DaziLine("400.0")>>, <<DaziLine("x")>>}
ZenParts == {<<Zen011>>, <<ZenLine(<<"0", "1">>)>>, <<ZenLine(<<"0", "x", "1">>)>>}
MiscParts ==
    {<<>>, <<Comment>>, <<Blank>>, <<NFreqLine("1.0")>>,
     <<ValidFromLine(GoodDate), ValidUntilLine(BadDate), SinexLine>>,
     <<ValidFromLine(BadDate), SinexLine>>}

PreParts ==
    {<<TypeRec>> \o d \o z \o m : d \in DaziParts, z \in ZenParts, m \in MiscParts}

\* frequency blocks, well-formed and malformed
FreqParts ==
    {<<>>}
    \cup {<<StartFreq("G01"), Neu3, NoaziRow(v), EndFreq("G01")>> : v \in Rows2}
    \cup {<<StartFreq("G01"), Neu3, NoaziRow(v), AzRow("0.0", v), EndFreq("G01")>> :
            v \in Rows2}
    \cup {<<StartFreq("G01"), NoaziRow(<<"1", "2">>), EndFreq("G01")>>,
          <<StartFreq("G01"), NoaziLong(<<"1", "2">>), EndFreq("G01")>>,
          <<StartFreq("G01"), Neu3, NoaziRow(<<"1", "2">>), EndFreq("G01"),
            StartFreq("R02"), Neu3, NoaziRow(<<"2", "2">>), EndFreq("R02")>>,
          <<StartFreq("G01"), Neu3, NoaziRow(<<"1">>), EndFreq("G01")>>,
          <<StartFreq("G01"), Neu3, NoaziRow(<<"1", "x">>), EndFreq("G01")>>,
          <<StartFreq("G01"), Neu3, AzRow("0.0", <<"1", "2">>), EndFreq("G01")>>,
          <<StartFreq("G01"), Neu3, NoaziRow(<<"1", "2">>), NoaziRow(<<"1", "2">>),
            EndFreq("G01")>>,
          <<StartFreq("G01"), Neu3, NoaziRow(<<"1", "2">>), AzRow("x", <<"1", "2">>),
            EndFreq("G01")>>,
          <<StartFreq("G01"), Neu2, NoaziLong(<<"1", "2">>), EndFreq("G01")>>,
          <<StartFreq("G01"), Neu2, NoaziLong(<<"1">>), EndFreq("G01")>>,
          <<StartFreq("G01"), LongRow(<<"0.0", "1", "2">>), NoaziRow(<<"1", "2">>),
            EndFreq("G01")>>,
          <<StartFreq("G01"), Neu2, NoaziLong(<<"1", "2">>)>>,
          <<StartFreq("G01"), NeuBad, NoaziRow(<<"1", "2">>), EndFreq("G01")>>,
          <<StartFreq("G01"), Neu3, NoaziRow(<<"1", "2">>)>>,
          <<StartFreq("G01"), Neu3, NoaziRow(<<"1", "2">>), Row60(<<>>)>>,
          <<StartFreq("G01"), Neu3, Comment, NoaziRow(<<"1", "2">>), EndFreq("G01")>>,
          <<StartFreq("G01"), Comment, Neu3, NoaziRow(<<"1", "2">>), EndFreq("G01")>>,
          <<StartFreq("G01"), Neu3, NoaziRow(<<"1", "2">>), Comment, EndFreq("G01")>>,
          <<StartFreq("G01"), NoaziLong(<<"1", "2">>), AzRow("0.0", <<"1", "2">>),
            EndFreq("G01")>>,
          <<StartFreq("G01"), Neu3, NoaziRow(<<"1", "2">>),
            LongRow(<<"0.0", "1", "2">>), LongRow(<<"5", "1", "2">>), EndFreq("G01")>>,
          <<StartFreq("G01"), Neu3>>,
          <<StartFreq("G01")>>,
          <<StartFreq("Gxx"), Neu3, NoaziRow(<<"1", "2">>), EndFreq("Gxx")>>}

TailParts == {<<EndAnt>>, <<>>}

\* the antenna block under test
Blocks ==
    {<<StartAnt>> \o pre \o f \o t : pre \in PreParts, f \in FreqParts, t \in TailParts}

RECURSIVE Repeat(_, _)
Repeat(sq, n) == IF n = 0 THEN <<>> ELSE sq \o Repeat(sq, n - 1)

\* what precedes and what follows the block under test
Before == {<<>>, GoodBlock}
Gaps == {<<>>, <<Blank>>}
After == {<<>>} \cup {g \o Repeat(GoodBlock, n) : g \in Gaps, n \in 1..MaxAfter}

BlockInputs == {b \o blk \o f : b \in Before, blk \in Blocks, f \in After}

\* one antenna per DAZI value, up to the point where the grid is sized
DaziInputs ==
    {<<StartAnt, DaziLine(IntTok(n)), Zen011, StartFreq("G01"), Neu3>> :
        n \in NumRange}

\* the keys of two azimuth rows, in every order
AzKeys == {"0.0", "360", "5"}

\* one antenna with DAZI = 360 and two azimuth rows
AziInputs ==
    {<<StartAnt, TypeRec, DaziLine("360"), Zen011, StartFreq("G01"), Neu3,
       NoaziRow(<<"1", "2">>), AzRow(k1, v1), AzRow(k2, v2), EndFreq("G01"),
       EndAnt>> :
        k1 \in AzKeys, k2 \in AzKeys, v1 \in Rows2, v2 \in Rows2}

BodyInputs == BlockInputs \cup DaziInputs \cup AziInputs

----------------------------------------------------------------------------
(* Specification of ReadAntexData on a scanner positioned at the body *)

\* a matrix or vector of rationals: the integers num over the common den
NilMat == [num |-> <<>>, den |-> 1]

ZeroMats == [B |-> NilMat, r |-> NilMat, i0 |-> NilMat, err |-> NoErr]

ZeroQuad == [u |-> NilMat, v |-> NilMat, lam |-> "", err |-> NoErr]

\* the results of CalcPos; a float64 with sol = 0 is the literal 0., one with
\* sol = k a component of the k-th solution of (eq.16), finite or not
ZeroRet ==
    LET zero == [sol |-> 0, finite |-> TRUE]
    IN  [x |-> zero, y |-> zero, z |-> zero, dt |-> zero, err |-> NoErr]

InitLocals ==
    /\ pos = 0
    /\ ant = <<>> /\ errOf = <<>> /\ antStart = 0
    /\ a = ZeroAnt
    /\ dazi = 0 /\ zen1 = 0 /\ zen2 = 0 /\ dzen = 0 /\ nf = 0
    /\ e = NoErr /\ err = NoErr
    /\ buf = EmptyLine /\ p = ZeroPcv /\ perr = NoErr /\ i = 0
    /\ row = ZeroRow
    /\ antexVer = "" /\ satSys = "" /\ pcvType = "" /\ refAnt = "" /\ h = <<>>
    /\ mats = ZeroMats /\ quad = ZeroQuad /\ ret = ZeroRet

Init ==
    /\ lines \in BodyInputs
    /\ satDatas = <<>>
    /\ pc = "rad"
    /\ InitLocals

Next ==
    \/ RAD_Return
    \/ RAD_Skip
    \/ RAD_Start
    \/ RAD_Append
    \/ SOA_Eof
    \/ SOA_Short
    \/ SOA_Field
    \/ SOA_End
    \/ SOA_StartFreq
    \/ SOA_FreqReturn
    \/ SOA_Resync
    \/ POF_Pco
    \/ POF_Noazi
    \/ POF_Azi
    \/ POF_End

Spec == Init /\ [][Next]_vars

----------------------------------------------------------------------------
(* ScanHeader *)

\* PadComment without line 94: a short line is kept as it is
PadCommentOff(l) == l

\* line 94: fmt.Sprintf("%-60sCOMMENT", buf) pads a line shorter than 61
\* bytes to 60 columns and labels it COMMENT
PadComment(l) == IF l.w < MinWidth THEN Labelled(l.data, LComment) ELSE l

\* a one-byte column of a header line: buf[0], buf[20]
ByteCol(l, k) == IF k <= Len(l.data) THEN l.data[k] ELSE " "

\* lines 100-115: the effect of one (padded) header line on the results
HeaderEffect(b, st) ==
    CASE HasPrefix(b.label, LVersion) ->
            [st EXCEPT !.antexVer = Window(b, 1), !.satSys = ByteCol(b, 2)]
      [] HasPrefix(b.label, LPcvType) ->
            [st EXCEPT !.pcvType = ByteCol(b, 1), !.refAnt = Window(b, 2)]
      [] OTHER -> st

\* EndsHeader for a scan that also stops at START OF ANTENNA
EndsHeaderAtAntenna(b) ==
    HasPrefix(b.label, LEndHeader) \/ HasPrefix(b.label, LStartAnt)

\* EndsHeader for a scan that does not stop at END OF HEADER
EndsHeaderNever(b) == FALSE

\* line 110: the label that ends the header
EndsHeader(b) ==
    /\ ~HasPrefix(b.label, LVersion)
    /\ ~HasPrefix(b.label, LPcvType)
    /\ ~HasPrefix(b.label, LComment)
    /\ HasPrefix(b.label, LEndHeader)

\* lines 89 and 118-120: the input ends, the fields gathered are returned
SH_Eof ==
    /\ pc = "hdr"
    /\ pos >= Len(lines)
    /\ pc' = "hdrRet"
    /\ UNCHANGED <<lines, pos, bodyVars, headerVars, bancroftVars>>

\* lines 89-116: one line of the header
SH_Line ==
    /\ pc = "hdr"
    /\ pos < Len(lines)
    /\ LET b == PadComment(lines[pos + 1])
           st == HeaderEffect(b, [antexVer |-> antexVer, satSys |-> satSys,
                                  pcvType |-> pcvType, refAnt |-> refAnt])
       IN  /\ h' = Append(h, b)
           /\ antexVer' = st.antexVer /\ satSys' = st.satSys
           /\ pcvType' = st.pcvType /\ refAnt' = st.refAnt
           /\ pc' = IF EndsHeader(b) THEN "hdrRet" ELSE "hdr"
    /\ pos' = pos + 1
    /\ UNCHANGED <<lines, bodyVars, bancroftVars>>

\* ReadAntexFile, lines 80-82: ReadAntexData runs on the same scanner
RAF_ReadData ==
    /\ pc = "hdrRet"
    /\ pc' = "rad"
    /\ UNCHANGED <<lines, pos, bodyVars, headerVars, bancroftVars>>

\* header lines
VersionLine == Labelled(<<"1.4", "M">>, LVersion)
PcvTypeLine == Labelled(<<"A", "AOAD/M_T">>, LPcvType)
PcvTypeRel == Labelled(<<"R">>, LPcvType)
EndHeader == Labelled(<<>>, LEndHeader)
\* a version line whose label starts before column 60
ShortVersion == ShortRow(<<"1.3", "G", "ANTEX", "VERSION", "/", "SYST">>)

HeaderAlphabet ==
    {VersionLine, PcvTypeLine, PcvTypeRel, EndHeader, ShortVersion, Comment,
     StartAnt, Row60(<<"E">>)}

HeaderInputs ==
    UNION {[1..n -> HeaderAlphabet] : n \in 0..MaxHeaderLines}

InitHeader ==
    /\ lines \in HeaderInputs
    /\ satDatas = <<>>
    /\ pc = "hdr"
    /\ InitLocals

NextHeader == SH_Eof \/ SH_Line

SpecHeader == InitHeader /\ [][NextHeader]_vars

----------------------------------------------------------------------------
(* ReadAntexFile: ScanHeader, then ReadAntexData on the same scanner *)

\* header-shaped lines that may appear again in the body
LateVersion == Labelled(<<"1.3", "G">>, LVersion)

\* the lines of a header before its END OF HEADER line
HeaderParts ==
    {<<>>, <<VersionLine, PcvTypeLine>>, <<VersionLine, Comment, PcvTypeLine>>,
     <<PcvTypeLine>>, <<ShortVersion, VersionLine>>}

\* what follows END OF HEADER before the first antenna
BodyHeads == {<<>>, <<LateVersion>>, <<PcvTypeRel, EndHeader>>, <<Comment>>}

\* antenna blocks: well-formed, with azimuth rows, with a bad DAZI, with a
\* short line, cut off after the type line
FileBlocks ==
    {GoodBlock,
     <<StartAnt, TypeRec, DaziLine("360"), Zen011, StartFreq("G01"), Neu3,
       NoaziRow(<<"1", "2">>), AzRow("0.0", <<"1", "2">>),
       AzRow("360", <<"2", "1">>), EndFreq("G01"), EndAnt>>,
     <<StartAnt, TypeRec, DaziLine("x"), Zen011, EndAnt>> \o GoodBlock,
     <<StartAnt, TypeRec, Blank, EndAnt>>,
     <<StartAnt, TypeRec>>}

FileInputs ==
    {hp \o he \o bh \o blk :
        hp \in HeaderParts, he \in {<<EndHeader>>, <<>>}, bh \in BodyHeads,
        blk \in FileBlocks}

InitFile ==
    /\ lines \in FileInputs
    /\ satDatas = <<>>
    /\ pc = "hdr"
    /\ InitLocals

NextFile == NextHeader \/ RAF_ReadData \/ Next

SpecFile == InitFile /\ [][NextFile]_vars

----------------------------------------------------------------------------
(* parseOneAzi on one data row *)

\* the tokens of a data row and the longest row
RowTokens == {"NOAZI", "0.0", "-5", "12", "x", "COMMENT"}
MaxRowLen == 3

RowInputs ==
    {ShortRow(ts) : ts \in UNION {[1..n -> RowTokens] : n \in 0..MaxRowLen}}

\* lines 386-408: parseOneAzi is applied to the row
AZI_Parse ==
    /\ pc = "row"
    /\ row' = parseOneAzi(lines[1])
    /\ pos' = 1
    /\ pc' = "rowRet"
    /\ UNCHANGED <<lines, ant, errOf, antStart, a, dazi, zen1, zen2, dzen, nf,
                   e, err, buf, p, perr, i, headerVars, bancroftVars>>

InitAzi ==
    /\ lines \in {<<r>> : r \in RowInputs}
    /\ satDatas = <<>>
    /\ pc = "row"
    /\ InitLocals

NextAzi == AZI_Parse

SpecAzi == InitAzi /\ [][NextAzi]_vars

----------------------------------------------------------------------------
(* CalcPos: the Bancroft solution (bancroft.go)

   Coordinates are integers and every matrix is kept exactly, as integers
   over a common denominator, so that the inverse of M is Adj(M) / Det(M).
   mat.Dense.Inverse reports an error for a singular matrix.  The roots of
   the quadratic are not computed: lam records whether they are finite. *)

\* the largest number of satellites in one call
MaxSats == 5

\* constructBancroftMatrices: the least number of satellites
MinSats == 4

\* calcMinkowski4D: the length of both vectors
Dim == 4

SatData(X, Y, Z, PR) == [X |-> X, Y |-> Y, Z |-> Z, PR |-> PR]

sqr(c) == c * c

ErrNotEnough == NewErr("not enough satellite", 0)

\* the mat.Condition error of Inverse
ErrCondition == NewErr("matrix singular or near-singular", 0)

RECURSIVE SumSeq(_)
SumSeq(s) == IF s = <<>> THEN 0 ELSE Head(s) + SumSeq(Tail(s))

Dot(s, t) == SumSeq([k \in 1..Len(s) |-> s[k] * t[k]])

\* A.T(), for a matrix with at least one row
MatT(M) == [c \in 1..Len(M[1]) |-> [k \in 1..Len(M) |-> M[k][c]]]

\* Mul
MatMul(M, N) ==
    [k \in 1..Len(M) |-> [c \in 1..Len(N[1]) |-> Dot(M[k], MatT(N)[c])]]

\* M without row k and column c
Minor(M, k, c) ==
    LET drop(s, j) == [m \in 1..(Len(s) - 1) |-> IF m < j THEN s[m] ELSE s[m + 1]]
    IN  [m \in 1..(Len(M) - 1) |-> drop(drop(M, k)[m], c)]

RECURSIVE Det(_)
Det(M) ==
    IF Len(M) = 1 THEN M[1][1]
    ELSE SumSeq([c \in 1..Len(M) |->
                    (IF c % 2 = 1 THEN 1 ELSE -1) * M[1][c]
                    * Det(Minor(M, 1, c))])

\* the adjugate: Adj(M) / Det(M) is the inverse of M
Adj(M) ==
    [k \in 1..Len(M) |-> [c \in 1..Len(M) |->
        (IF (k + c) % 2 = 0 THEN 1 ELSE -1) * Det(Minor(M, c, k))]]

\* B.Inverse(A): an error for a singular matrix
Inverse(M) ==
    IF Det(M) = 0
    THEN [m |-> NilMat, err |-> ErrCondition]
    ELSE [m |-> [num |-> Adj(M), den |-> Det(M)], err |-> NoErr]

\* u.MulVec(B, w) for a matrix B and a vector w of rationals
MulVec(M, w) ==
    [num |-> [k \in 1..Len(M.num) |-> Dot(M.num[k], w.num)],
     den |-> M.den * w.den]

generalizedInverse(A) ==
    LET AtA  == MatMul(MatT(A), A)
        AtAi == Inverse(AtA)
    IN  IF ~IsNil(AtAi.err)
        THEN [m |-> NilMat, err |-> AtAi.err]
        ELSE [m |-> [num |-> MatMul(AtAi.m.num, MatT(A)), den |-> AtAi.m.den],
              err |-> NoErr]

\* constructBancroftMatrices with the least number of satellites least
constructWith(least, sd) ==
    LET n  == Len(sd)
        A  == [k \in 1..n |-> <<sd[k].X, sd[k].Y, sd[k].Z, sd[k].PR>>]
        r  == [num |-> [k \in 1..n |-> sqr(sd[k].X) + sqr(sd[k].Y)
                                       + sqr(sd[k].Z) - sqr(sd[k].PR)],
               den |-> 2]
        i0 == [num |-> [k \in 1..n |-> 1], den |-> 1]
        B0 == [num |-> [k \in 1..Dim |-> [c \in 1..n |-> 0]], den |-> 1]
        inv == IF n = Dim THEN Inverse(A) ELSE generalizedInverse(A)
    IN  IF n < least
        THEN [B |-> NilMat, r |-> NilMat, i0 |-> NilMat, err |-> ErrNotEnough]
        ELSE IF n >= Dim
        THEN IF ~IsNil(inv.err)
             THEN [B |-> inv.m, r |-> r, i0 |-> i0, err |-> inv.err]
             ELSE [B |-> inv.m, r |-> r, i0 |-> i0, err |-> NoErr]
        ELSE [B |-> B0, r |-> r, i0 |-> i0, err |-> NoErr]

\* constructBancroftMatrices that asks for three satellites
constructBancroftMatrices3(sd) == constructWith(MinSats - 1, sd)

constructBancroftMatrices(sd) == constructWith(MinSats, sd)

\* minkowski4D and calcMinkowski4D: the numerator of <s, t> for two vectors
\* of rationals; the denominator is s.den * t.den
minkowski4D(s, t) ==
    IF Len(s.num) # Dim \/ Len(t.num) # Dim
    THEN [v |-> 0, err |-> NewErr("invalid vector size", 0)]
    ELSE [v |-> s.num[1] * t.num[1] + s.num[2] * t.num[2]
                + s.num[3] * t.num[3] - s.num[4] * t.num[4],
          err |-> NoErr]

\* solveBancroftQuadraticEq: with E = EE / u.den^2, F = (uv - u.den * v.den)
\* / (u.den * v.den) and G = GG / v.den^2, the roots (-F +- sqrt(F*F - E*G)) / E
\* are finite exactly when E # 0 and F*F - E*G >= 0
solveBancroftQuadraticEq(u, v) ==
    LET EE == minkowski4D(u, u)
        uv == minkowski4D(u, v)
        GG == minkowski4D(v, v)
        FF == uv.v - u.den * v.den
    IN  IF ~IsNil(EE.err) THEN [lam |-> "", err |-> EE.err]
        ELSE IF ~IsNil(uv.err) THEN [lam |-> "", err |-> uv.err]
        ELSE IF ~IsNil(GG.err) THEN [lam |-> "", err |-> GG.err]
        ELSE IF EE.v # 0 /\ FF * FF - EE.v * GG.v >= 0
        THEN [lam |-> "finite", err |-> NoErr]
        ELSE [lam |-> "nonfinite", err |-> NoErr]

\* CalcPos, lines 67-70; the error is returned with 0., 0., 0., 0.
CP_Construct ==
    /\ pc = "calc"
    /\ mats' = constructBancroftMatrices(satDatas)
    /\ IF ~IsNil(mats'.err)
       THEN ret' = [ZeroRet EXCEPT !.err = mats'.err] /\ pc' = "ret"
       ELSE ret' = ret /\ pc' = "built"
    /\ UNCHANGED <<lines, pos, bodyVars, headerVars, satDatas, quad>>

\* CalcPos, lines 74-81; the error is returned with 0., 0., 0., 0.
CP_Solve ==
    /\ pc = "built"
    /\ LET u == MulVec(mats.B, mats.i0)
           v == MulVec(mats.B, mats.r)
           q == solveBancroftQuadraticEq(u, v)
       IN  /\ quad' = [u |-> u, v |-> v, lam |-> q.lam, err |-> q.err]
           /\ IF ~IsNil(q.err)
              THEN ret' = [ZeroRet EXCEPT !.err = q.err] /\ pc' = "ret"
              ELSE ret' = ret /\ pc' = "solved"
    /\ UNCHANGED <<lines, pos, bodyVars, headerVars, satDatas, mats>>

\* CalcPos, lines 85-104: the first solution, or the second one when it is
\* nearer to the surface of the Earth; a comparison with NaN is false
CP_Return ==
    /\ pc = "solved"
    /\ \E k \in IF quad.lam = "finite" THEN {1, 2} ELSE {1} :
           LET c == [sol |-> k, finite |-> quad.lam = "finite"]
           IN  ret' = [x |-> c, y |-> c, z |-> c, dt |-> c, err |-> NoErr]
    /\ pc' = "ret"
    /\ UNCHANGED <<lines, pos, bodyVars, headerVars, satDatas, mats, quad>>

SatAlphabet ==
    {SatData(1, 0, 0, 1), SatData(0, 1, 0, 1), SatData(0, 0, 1, 1),
     SatData(0, 0, 0, 1), SatData(1, 1, 0, 2)}

InitBancroft ==
    /\ lines = <<>>
    /\ satDatas \in UNION {[1..n -> SatAlphabet] : n \in 0..MaxSats}
    /\ pc = "calc"
    /\ InitLocals

NextBancroft == CP_Construct \/ CP_Solve \/ CP_Return

SpecBancroft == InitBancroft /\ [][NextBancroft]_vars

----------------------------------------------------------------------------
(* Reference notions the properties are stated with *)

\* floor of x/y, y # 0
FloorDiv(x, y) == IF y > 0 THEN x \div y ELSE (-x) \div (-y)

IsStartAntLine(l) == l.w >= MinWidth /\ l.label = LStartAnt
IsEndAntLine(l) == l.w >= MinWidth /\ l.label = LEndAnt
IsAntDelimiter(l) == IsStartAntLine(l) \/ IsEndAntLine(l)

\* the END OF ANTENNA line of the antenna that starts at line s: the first
\* antenna delimiter after s when it is an END OF ANTENNA, else Len + 1
OwnEnd(s) ==
    LET k == FirstAfter(lines, s, IsAntDelimiter)
    IN  IF k <= Len(lines) /\ IsEndAntLine(lines[k]) THEN k ELSE Len(lines) + 1

\* the antenna record of GoodBlock
GoodAnt ==
    [ZeroAnt EXCEPT
        !.Type = "BLOCK IIA", !.S1 = "G01", !.S2 = "G032", !.S3 = "1992-079A",
        !.PCV = << [ZeroPcv EXCEPT
                      !.Sys = "G", !.Freq = 1, !.Zen2 = 1, !.Dzen = 1, !.Nzen = 2,
                      !.PCO = [N |-> 279, E |-> 0, U |-> -5],
                      !.Vnonaz = <<2, 1>>] >>]

\* the offsets at which GoodBlock occurs in the input right after an
\* END OF ANTENNA line
GoodAfterEnd ==
    {o \in 1..Len(lines) :
        /\ IsEndAntLine(lines[o])
        /\ o + Len(GoodBlock) <= Len(lines)
        /\ SubSeq(lines, o + 1, o + Len(GoodBlock)) = GoodBlock}

Occurrences(sq, x) == Cardinality({k \in 1..Len(sq) : sq[k] = x})

\* every grid the parser holds: of the antennas returned and of the one
\* under construction
AllGrids ==
    UNION {{ant[k].PCV[j] : j \in 1..Len(ant[k].PCV)} : k \in 1..Len(ant)}
    \cup {a.PCV[j] : j \in 1..Len(a.PCV)}

----------------------------------------------------------------------------
(* C1 *)

\* C1: the antenna sequence of ReadAntexData holds only antennas whose
\* scanOneAntenna call returned no error; an antenna whose block produced an
\* error is dropped.
C1_OnlyErrorFreeAntennas ==
    \A k \in 1..Len(ant) : IsNil(errOf[k])

----------------------------------------------------------------------------
(* C2 *)

\* C2: when scanOneAntenna fails on a block whose END OF ANTENNA line is in
\* the input, the cursor is left right after that line, so that every
\* well-formed block that follows a terminated block is parsed and returned.
C2_CursorAfterOwnEnd ==
    /\ (pc = "soaRet" /\ ~IsNil(err) /\ OwnEnd(antStart) <= Len(lines))
            => pos = OwnEnd(antStart)
    /\ (pc = "done" /\ GoodAfterEnd # {})
            => Occurrences(ant, GoodAnt) >= Cardinality(GoodAfterEnd)

----------------------------------------------------------------------------
(* C3 *)

\* C3: no input makes the body parse abort: ReadAntexData never reaches a
\* panic.
C3_NeverPanics == pc # "panic"

----------------------------------------------------------------------------
(* C4 *)

\* the counts the grid's own parameters give by the formulas
\* zenithCount = floor((Zen2 - Zen1) / Dzen) + 1 and
\* azimuthCount = 0 when Dazi = 0, else floor(360 / Dazi) + 1
\* (zenithCount has no value when Dzen = 0)
GridCountsOK(g) ==
    g.Dzen # 0 =>
       LET zc == FloorDiv(g.Zen2 - g.Zen1, g.Dzen) + 1
           ac == IF g.Dazi = 0 THEN 0 ELSE FloorDiv(FullCircle, g.Dazi) + 1
       IN  /\ g.Nzen = zc /\ g.Nazi = ac
           /\ Len(g.Vnonaz) = zc
           /\ Len(g.Vaz) = ac /\ Len(g.Azs) = ac
           /\ \A j \in 1..Len(g.Vaz) : Len(g.Vaz[j]) = zc

\* C4: every grid appended to an antenna has len(Vnonaz) = zenithCount,
\* len(Vaz) = len(Azs) = azimuthCount and rows of zenithCount values, the
\* counts being those of the grid's own Zen1/Zen2/Dzen/Dazi.
C4_GridDimensions == \A g \in AllGrids : GridCountsOK(g)

----------------------------------------------------------------------------
(* C5 *)

IsEndHeaderLine(l) == l.w >= MinWidth /\ l.label = LEndHeader
IsVersionLine(l) == l.w >= MinWidth /\ l.label = LVersion
IsPcvTypeLine(l) == l.w >= MinWidth /\ l.label = LPcvType

NoEndOfHeader == \A k \in 1..Len(lines) : ~IsEndHeaderLine(lines[k])

\* the last line of the input for which is holds, 0 when there is none
LastLine(is(_)) ==
    LET hits == {k \in 1..Len(lines) : is(lines[k])}
    IN  IF hits = {} THEN 0 ELSE CHOOSE k \in hits : \A m \in hits : m <= k

\* column c of the last line for which is holds, none when no line does or
\* the column is blank
LastColumn(is(_), c, none) ==
    LET k == LastLine(is)
    IN  IF k = 0 \/ c > Len(lines[k].data) THEN none ELSE lines[k].data[c]

\* C5: without an END OF HEADER line ScanHeader stops at the end of the
\* input and returns the values of the last version/system line and the
\* last PCV-type line, both when both are present; lines shorter than 61
\* columns are recorded as COMMENT lines and set no field.
C5_HeaderWithoutTerminator ==
    /\ pc \in {"hdr", "hdrRet"}
    /\ (pc = "hdrRet" /\ NoEndOfHeader) =>
          /\ pos = Len(lines)
          /\ antexVer = LastColumn(IsVersionLine, 1, "")
          /\ satSys = (IF LastLine(IsVersionLine) = 0 THEN ""
                       ELSE LastColumn(IsVersionLine, 2, " "))
          /\ pcvType = (IF LastLine(IsPcvTypeLine) = 0 THEN ""
                        ELSE LastColumn(IsPcvTypeLine, 1, " "))
          /\ refAnt = LastColumn(IsPcvTypeLine, 2, "")
          /\ Len(h) = Len(lines)
          /\ \A k \in 1..Len(lines) :
                lines[k].w < MinWidth =>
                    h[k].label = LComment /\ h[k].data = lines[k].data

\* a header of a version line, a short line and a PCV-type line, with no
\* terminator, has been scanned to the end
C5_Witness ==
    /\ pc = "hdrRet"
    /\ NoEndOfHeader
    /\ lines = <<VersionLine, ShortVersion, PcvTypeLine>>
    /\ antexVer = "1.4" /\ satSys = "M" /\ pcvType = "A" /\ refAnt = "AOAD/M_T"

----------------------------------------------------------------------------
(* C6 *)

\* the frequency blocks of a minimal body: the NOAZI row alone, with the
\* optional NORTH / EAST / UP line or without it
MinimalFreqs ==
    {<<StartFreq("G01"), Neu3, NoaziRow(v), EndFreq("G01")>> : v \in Rows2}
    \cup {<<StartFreq("G01"), NoaziRow(<<"1", "2">>), EndFreq("G01")>>,
          <<StartFreq("G01"), NoaziLong(<<"1", "2">>), EndFreq("G01")>>}

MinimalBodies ==
    {<<StartAnt, TypeRec, DaziLine("0"), Zen011>> \o f \o <<EndAnt>> :
        f \in MinimalFreqs}

\* the values of the NOAZI row of the input
NoaziValues ==
    LET k == CHOOSE j \in 1..Len(lines) :
                 Len(lines[j].data) > 0 /\ lines[j].data[1] = "NOAZI"
    IN  [j \in 1..(Len(lines[k].data) - 1) |-> FloatTable[lines[k].data[j + 1]]]

\* C6: a minimal well-formed body (one antenna, one frequency, DAZI = 0)
\* parses to one antenna with one grid, no azimuth values, and the values
\* of the NOAZI row as its non-azimuth values.
C6_MinimalBody ==
    lines \in MinimalBodies =>
        /\ pc # "panic"
        /\ pc = "done" =>
              /\ Len(ant) = 1
              /\ IsNil(errOf[1])
              /\ Len(ant[1].PCV) = 1
              /\ ant[1].PCV[1].Vaz = <<>>
              /\ ant[1].PCV[1].Vnonaz = NoaziValues

\* the same restricted to the bodies that carry a NORTH / EAST / UP line
C6_MinimalBodyWithPco ==
    (lines \in MinimalBodies /\ lines[6].label = LNeu) => C6_MinimalBody

----------------------------------------------------------------------------
(* C7 *)

\* frequency blocks whose rows break a rule: a NOAZI row of one value where
\* zenithCount is 2, a first row that is not the NOAZI row, NOAZI on the
\* row after the NOAZI row
BadRowFreqs ==
    {<<StartFreq("G01"), Neu3, NoaziRow(<<"1">>), EndFreq("G01")>>,
     <<StartFreq("G01"), Neu3, AzRow("0.0", <<"1", "2">>), EndFreq("G01")>>,
     <<StartFreq("G01"), Neu3, NoaziRow(<<"1", "2">>), NoaziRow(<<"1", "2">>),
       EndFreq("G01")>>,
     <<StartFreq("G01"), Neu2, NoaziLong(<<"1">>), EndFreq("G01")>>,
     <<StartFreq("G01"), LongRow(<<"0.0", "1", "2">>), NoaziRow(<<"1", "2">>),
       EndFreq("G01")>>}

BadRowInputs ==
    {b \o <<StartAnt, TypeRec>> \o d \o <<Zen011>> \o f \o <<EndAnt>> \o aft :
        b \in Before, d \in {<<DaziLine("0")>>, <<DaziLine("400.0")>>},
        f \in BadRowFreqs, aft \in {<<>>, GoodBlock}}

GoodBlockCount ==
    Cardinality({o \in 0..Len(lines) :
        /\ o + Len(GoodBlock) <= Len(lines)
        /\ SubSeq(lines, o + 1, o + Len(GoodBlock)) = GoodBlock})

\* C7: a frequency block whose rows break a rule is rejected with an error
\* and adds no grid, and the antennas that follow are still parsed.
C7_BadRowsRejected ==
    lines \in BadRowInputs =>
        /\ pc # "panic"
        /\ pc = "done" =>
              /\ \A k \in 1..Len(ant) : ant[k].PCV # <<>> => ant[k] = GoodAnt
              /\ \E k \in 1..Len(errOf) : ~IsNil(errOf[k])
              /\ Occurrences(ant, GoodAnt) = GoodBlockCount

----------------------------------------------------------------------------
(* C8 *)

\* C8: inside an antenna block a line shorter than 61 columns is treated as
\* a comment: no field changes and the per-antenna loop goes on with the
\* next line.
C8_ShortLineIsComment ==
    [][(pc = "soa" /\ pos < Len(lines) /\ lines[pos + 1].w < MinWidth)
           => /\ pc' = "soa"
              /\ pos' = pos + 1
              /\ UNCHANGED <<a, dazi, zen1, zen2, dzen, nf>>]_vars

----------------------------------------------------------------------------
(* C9 *)

\* the input is exhausted and holds no END OF ANTENNA line after the start
\* of the current antenna
ExhaustedInAntenna ==
    /\ antStart > 0
    /\ pos = Len(lines)
    /\ \A k \in (antStart + 1)..Len(lines) : ~IsEndAntLine(lines[k])

Reports(er, msg) == \E j \in 1..Len(er.chain) : er.chain[j] = msg

\* C9: when the input is exhausted before END OF ANTENNA, scanOneAntenna
\* returns an error that reports the missing terminator, in the dispatch
\* loop and while resynchronizing after an earlier error alike.
C9_MissingTerminatorReported ==
    (pc = "soaRet" /\ ExhaustedInAntenna) =>
        /\ ~IsNil(err)
        /\ Reports(err, "End of freq label not found")

\* the part of C9 that the dispatch loop meets: some error is returned
C9_SomeErrorReturned ==
    (pc = "soaRet" /\ ExhaustedInAntenna) => ~IsNil(err)

----------------------------------------------------------------------------
(* C10 *)

\* the grid has been sized by parseOneFreq
Sized == pc \in {"noazi", "azi"}

----------------------------------------------------------------------------
(* C11 *)

\* the key and the values a data row of the input denotes
RowKey(l) == FloatTable[l.data[1]]
RowVals(l) == [k \in 1..(Len(l.data) - 1) |-> FloatTable[l.data[k + 1]]]

\* C11: a frequency block whose azimuth rows have the right count and row
\* lengths is accepted whatever the order of the keys, and the rows are
\* stored in input order: Azs[i] is the key of the i-th azimuth row and
\* Vaz[i] its values.
C11_AzimuthOrderFree ==
    lines \in AziInputs =>
        /\ pc # "panic"
        /\ pc = "done" =>
              /\ Len(ant) = 1
              /\ IsNil(errOf[1])
              /\ Len(ant[1].PCV) = 1
              /\ ant[1].PCV[1].Nazi = 2
              /\ ant[1].PCV[1].Azs = <<RowKey(lines[8]), RowKey(lines[9])>>
              /\ ant[1].PCV[1].Vaz = <<RowVals(lines[8]), RowVals(lines[9])>>

\* a block with the keys 360 and 0.0, in this order, has been accepted
C11_Witness ==
    /\ pc = "done"
    /\ lines \in AziInputs
    /\ lines[8].data = <<"360", "1", "2">>
    /\ lines[9].data = <<"0.0", "2", "1">>
    /\ Len(ant) = 1
    /\ ant[1].PCV[1].Azs = <<360, 0>>
    /\ ant[1].PCV[1].Vaz = <<<<1, 2>>, <<2, 1>>>>

----------------------------------------------------------------------------
(* C12 *)

\* C12: an antenna is reported as a satellite antenna exactly when the
\* second or third identifier of its TYPE / SERIAL NO line is populated.
C12_SatelliteFlag ==
    \A k \in 1..Len(ant) :
        IsSatAnt(ant[k]) <=> (ant[k].S2 # "" \/ ant[k].S3 # "")

----------------------------------------------------------------------------
(* C13 *)

\* antennas whose frequency block has no NORTH / EAST / UP line: the NOAZI
\* row follows START OF FREQUENCY, then the azimuth rows DAZI asks for
PcoLessBodies ==
    {<<StartAnt, TypeRec, DaziLine("0"), Zen011, StartFreq("G01"), r,
       EndFreq("G01"), EndAnt>> :
        r \in {NoaziRow(<<"1", "2">>), NoaziLong(<<"1", "2">>)}}
    \cup {<<StartAnt, TypeRec, DaziLine("400.0"), Zen011, StartFreq("G01"),
            NoaziLong(<<"1", "2">>), AzRow("0.0", <<"1", "2">>), EndFreq("G01"),
            EndAnt>>}

\* C13: when the line after START OF FREQUENCY does not carry the
\* NORTH / EAST / UP label, the PCO stays zero and that line is parsed as
\* the NOAZI row: the block is accepted with the values of its rows.
C13_PcoOptional ==
    lines \in PcoLessBodies =>
        /\ pc # "panic"
        /\ pc = "done" =>
              /\ Len(ant) = 1
              /\ IsNil(errOf[1])
              /\ Len(ant[1].PCV) = 1
              /\ ant[1].PCV[1].PCO = ZeroPco
              /\ ant[1].PCV[1].Vnonaz = RowVals(lines[6])
              /\ lines[3] = DaziLine("400.0") =>
                    ant[1].PCV[1].Vaz = <<RowVals(lines[7])>>

----------------------------------------------------------------------------
(* C14 *)

\* the well-formed frequency block of two zenith values with one COMMENT
\* line inserted after its first, second or third line
CommentedFreqs ==
    {<<StartFreq("G01"), Comment, Neu3, NoaziRow(<<"1", "2">>), EndFreq("G01")>>,
     <<StartFreq("G01"), Neu3, Comment, NoaziRow(<<"1", "2">>), EndFreq("G01")>>,
     <<StartFreq("G01"), Neu3, NoaziRow(<<"1", "2">>), Comment, EndFreq("G01")>>}

CommentedBodies ==
    {<<StartAnt, TypeRec, DaziLine("0"), Zen011>> \o f \o <<EndAnt>> \o aft :
        f \in CommentedFreqs, aft \in {<<>>, GoodBlock}}

\* C14: COMMENT lines inside a frequency block are skipped one at a time:
\* parseOneFreq returns the grid of the block without them, with the cursor
\* just after the block's END OF FREQUENCY line.
C14_CommentsSkipped ==
    lines \in CommentedBodies =>
        /\ pc # "panic"
        /\ pc = "pofRet" =>
              /\ IsNil(perr)
              /\ pos = 9
              /\ p.PCO = [N |-> 279, E |-> 0, U |-> -5]
              /\ p.Vnonaz = <<1, 2>>
              /\ p.Vaz = <<>>

----------------------------------------------------------------------------
(* C15 *)

CarriesEndFreq(l) == l.w >= MinWidth /\ HasPrefix(l.label, LEndFreq)

\* all rows of the block are read and the line that follows them does not
\* carry END OF FREQUENCY (or there is no such line)
MisplacedEnd ==
    /\ pc = "azi"
    /\ i >= p.Nazi
    /\ ~EndsWithComment(buf)
    /\ pos < Len(lines) => ~CarriesEndFreq(lines[pos + 1])

\* the first line after the cursor that carries END OF FREQUENCY, or the
\* end of the input
NextEndFreq ==
    LET hits == {k \in (pos + 1)..Len(lines) : CarriesEndFreq(lines[k])}
    IN  IF hits = {} THEN Len(lines) ELSE CHOOSE k \in hits : \A m \in hits : k <= m

\* C15: when the line after the last expected row does not carry
\* END OF FREQUENCY, parseOneFreq scans forward to the line that carries it
\* and stops there, and returns an error whether or not the label is found.
C15_EndOfFrequencyResync ==
    [][MisplacedEnd =>
          /\ pc' = "pofRet"
          /\ ~IsNil(perr')
          /\ pos' = NextEndFreq]_vars

\* the part of C15 that holds: a misplaced END OF FREQUENCY is never
\* accepted without an error
C15_ErrorReturned ==
    [][MisplacedEnd => (pc' = "pofRet" => ~IsNil(perr'))]_vars

----------------------------------------------------------------------------
(* C16 *)

IsNumber(t) == t \in IntTokens \cup DecTokens
IsInteger(t) == t \in IntTokens

\* a DAZI, a ZEN1 / ZEN2 / DZEN or a # OF FREQUENCIES line whose data do not
\* yield the numbers of the field
BadNumericLine(l) ==
    /\ l.w >= MinWidth
    /\ \/ l.label = LDazi /\ ~(Len(l.data) = 1 /\ IsNumber(l.data[1]))
       \/ l.label = LZen /\ ~(Len(l.data) >= 3 /\ \A k \in 1..3 : IsNumber(l.data[k]))
       \/ l.label = LNFreq /\ ~(Len(l.data) = 1 /\ IsInteger(l.data[1]))

\* the first END OF ANTENNA line after the cursor, or the end of the input
NextEndAnt ==
    LET hits == {k \in (pos + 1)..Len(lines) : IsEndAntLine(lines[k])}
    IN  IF hits = {} THEN Len(lines) ELSE CHOOSE k \in hits : \A m \in hits : k <= m

\* C16: a numeric field of an antenna block that fails to parse ends the
\* dispatch loop at once with an error; the cursor is then advanced to
\* END OF ANTENNA and scanOneAntenna returns that error.
C16_NumericFailureEndsLoop ==
    [][/\ (pc = "soa" /\ pos < Len(lines) /\ BadNumericLine(lines[pos + 1]))
            => (pc' = "resync" /\ ~IsNil(e'))
       /\ pc = "resync"
            => (pc' = "soaRet" /\ pos' = NextEndAnt /\ err' = e /\ a' = a)]_vars

\* the same without the ZEN1 / ZEN2 / DZEN lines of fewer than three tokens
C16_ExceptShortZen ==
    [][/\ (/\ pc = "soa" /\ pos < Len(lines) /\ BadNumericLine(lines[pos + 1])
           /\ ~(lines[pos + 1].label = LZen /\ Len(lines[pos + 1].data) < 3))
            => (pc' = "resync" /\ ~IsNil(e'))
       /\ pc = "resync"
            => (pc' = "soaRet" /\ pos' = NextEndAnt /\ err' = e /\ a' = a)]_vars

----------------------------------------------------------------------------
(* C17 *)

\* a NORTH / EAST / UP line that does not yield three numbers
BadNeuLine(l) ==
    /\ l.w >= MinWidth
    /\ l.label = LNeu
    /\ ~(Len(l.data) >= 3 /\ \A k \in 1..3 : IsNumber(l.data[k]))

\* C17: a NORTH / EAST / UP line that does not yield three numeric values
\* makes parseOneFreq return an error; no grid is appended for the block
\* and scanOneAntenna enters its error recovery.
C17_BadPcoFails ==
    [][/\ (pc = "pof" /\ pos < Len(lines) /\ BadNeuLine(lines[pos + 1]))
            => (pc' = "pofRet" /\ ~IsNil(perr'))
       /\ (pc = "pofRet" /\ ~IsNil(perr))
            => (pc' = "resync" /\ ~IsNil(e') /\ a' = a)]_vars

\* the same for lines of three tokens, one of them not a number
C17_NonNumericPcoFails ==
    [][/\ (/\ pc = "pof" /\ pos < Len(lines) /\ BadNeuLine(lines[pos + 1])
           /\ Len(lines[pos + 1].data) >= 3)
            => (pc' = "pofRet" /\ ~IsNil(perr'))
       /\ (pc = "pofRet" /\ ~IsNil(perr))
            => (pc' = "resync" /\ ~IsNil(e') /\ a' = a)]_vars

----------------------------------------------------------------------------
(* C18 *)

\* six fields that make a date of the expected layout
IsDate(d) ==
    /\ Len(d) = 6
    /\ d[1] \in YearTokens
    /\ \A k \in 2..5 : IsInteger(d[k])
    /\ IsNumber(d[6])
    /\ IntTable[d[2]] \in 1..12 /\ IntTable[d[3]] \in 1..31
    /\ IntTable[d[4]] \in 0..23 /\ IntTable[d[5]] \in 0..59
    /\ FloatTable[d[6]] \in 0..59

\* the next line of the dispatch loop is a VALID FROM or VALID UNTIL line
\* whose date does not match the layout
AtBadDateLine ==
    /\ pc = "soa"
    /\ pos < Len(lines)
    /\ lines[pos + 1].w >= MinWidth
    /\ lines[pos + 1].label \in {LValidFrom, LValidUntil}
    /\ ~IsDate(lines[pos + 1].data)

DateError == NewErr("time.Parse", 0)

\* C18 as stated: a date that does not match the layout is an error for the
\* date field only, and the per-antenna parser keeps dispatching the
\* following labels of the block.
C18_DateErrorAsStated ==
    [][AtBadDateLine => pc' = "soa"]_vars

\* C18 amended: a date that does not match the layout leaves the date field
\* at the zero time and is an error for the whole antenna: the dispatch
\* loop ends at once, the cursor is advanced to END OF ANTENNA and
\* scanOneAntenna returns the date error.
C18_DateErrorEndsLoop ==
    [][/\ AtBadDateLine =>
            /\ pc' = "resync"
            /\ e' = DateError
            /\ a' = IF lines[pos + 1].label = LValidFrom
                    THEN [a EXCEPT !.ValidFrom = ZeroTime]
                    ELSE [a EXCEPT !.ValidUntil = ZeroTime]
       /\ (pc = "resync" /\ e = DateError) =>
            /\ pc' = "soaRet"
            /\ pos' = NextEndAnt
            /\ err' = DateError
            /\ a' = a]_vars

\* scanOneAntenna has returned the date error of a VALID UNTIL line that
\* follows a well-formed VALID FROM line, whose date is kept
C18_Witness ==
    /\ pc = "soaRet"
    /\ err = DateError
    /\ a.ValidFrom = <<"1992", 11, 22, 0, 0, 0>>
    /\ a.ValidUntil = ZeroTime
    /\ a.SinexCode = ""
    /\ \E k \in 1..Len(lines) :
          lines[k].label = LValidUntil /\ lines[k + 1] = SinexLine /\ k < pos

----------------------------------------------------------------------------
(* C19 *)

\* C19: parseOneAzi returns an error exactly when the row has no token or
\* some token after the first is not a number; otherwise it returns the
\* first token as the key and the remaining tokens, in order, as the values.
C19_ParseOneAzi ==
    pc = "rowRet" =>
        LET t == lines[1].data IN
        /\ ~IsNil(row.e) <=>
              (Len(t) = 0 \/ \E k \in 2..Len(t) : ~IsNumber(t[k]))
        /\ IsNil(row.e) =>
              /\ row.az = t[1]
              /\ Len(row.v) = Len(t) - 1
              /\ \A k \in 1..Len(row.v) : row.v[k] = FloatTable[t[k + 1]]

\* a row of a non-numeric key and two values has been parsed without error
C19_Witness ==
    /\ pc = "rowRet"
    /\ lines[1].data = <<"NOAZI", "-5", "0.0">>
    /\ row = [az |-> "NOAZI", v |-> <<-5, 0>>, e |-> NoErr]

----------------------------------------------------------------------------
(* C20 *)

\* the first END OF HEADER line of the input, 0 when there is none
HeaderEnd ==
    LET hits == {k \in 1..Len(lines) : IsEndHeaderLine(lines[k])}
    IN  IF hits = {} THEN 0 ELSE CHOOSE k \in hits : \A m \in hits : k <= m

\* the last of the first n lines that carries the label, 0 when none does
LastIn(n, label) ==
    LET hits == {k \in 1..n : lines[k].w >= MinWidth /\ lines[k].label = label}
    IN  IF hits = {} THEN 0 ELSE CHOOSE k \in hits : \A m \in hits : m <= k

\* column c of that line: none when there is no such line, blank when the
\* line has no such column
ColumnIn(n, label, c, none, blank) ==
    LET k == LastIn(n, label)
    IN  IF k = 0 THEN none
        ELSE IF c > Len(lines[k].data) THEN blank ELSE lines[k].data[c]

\* the first START OF ANTENNA line after line n, 0 when there is none
FirstAntennaAfter(n) ==
    LET hits == {k \in (n + 1)..Len(lines) : IsStartAntLine(lines[k])}
    IN  IF hits = {} THEN 0 ELSE CHOOSE k \in hits : \A m \in hits : k <= m

\* C20: ScanHeader consumes the lines up to and including the first
\* END OF HEADER line and none after it; header-shaped lines that come
\* later change no header field, and the first START OF ANTENNA line
\* after the header is the one ReadAntexData starts its first antenna at.
C20_HeaderCursor ==
    HeaderEnd # 0 =>
        /\ pc = "hdr" => pos < HeaderEnd
        /\ pc = "hdrRet" => pos = HeaderEnd /\ Len(h) = HeaderEnd
        /\ pc # "hdr" =>
              /\ antexVer = ColumnIn(HeaderEnd, LVersion, 1, "", "")
              /\ satSys = ColumnIn(HeaderEnd, LVersion, 2, "", " ")
              /\ pcvType = ColumnIn(HeaderEnd, LPcvType, 1, "", " ")
              /\ refAnt = ColumnIn(HeaderEnd, LPcvType, 2, "", "")
        /\ (pc \notin {"hdr", "hdrRet"} /\ ant = <<>>) =>
              IF antStart = 0
              THEN FirstAntennaAfter(HeaderEnd) \notin 1..pos
              ELSE antStart = FirstAntennaAfter(HeaderEnd)

\* the header ended at its END OF HEADER line, a PCV-type line and a second
\* END OF HEADER followed, and ReadAntexData has entered the first antenna
C20_Witness ==
    /\ HeaderEnd = 3
    /\ lines[1] = VersionLine /\ lines[2] = PcvTypeLine
    /\ lines[4] = PcvTypeRel /\ lines[5] = EndHeader
    /\ pc = "soa"
    /\ antStart = 6
    /\ antexVer = "1.4" /\ satSys = "M" /\ pcvType = "A" /\ refAnt = "AOAD/M_T"

----------------------------------------------------------------------------
(* C21 *)

\* C21: when the input has no END OF HEADER line, ScanHeader consumes every
\* line, antenna blocks included, and the ReadAntexData call that follows
\* finds no line and returns no antenna.
C21_NoTerminatorConsumesAll ==
    HeaderEnd = 0 =>
        /\ pc \in {"hdr", "hdrRet", "rad", "done"}
        /\ pc # "hdr" => pos = Len(lines) /\ Len(h) = Len(lines)
        /\ ant = <<>>
        /\ antStart = 0

\* a file of a header without END OF HEADER and two well-formed antenna
\* blocks has been read to the end, and no antenna is returned
C21_Witness ==
    /\ HeaderEnd = 0
    /\ pc = "done"
    /\ ant = <<>>
    /\ lines = <<VersionLine, PcvTypeLine, StartAnt, TypeRec, DaziLine("x"),
                 Zen011, EndAnt>> \o GoodBlock

----------------------------------------------------------------------------
(* C22 *)

IsZero4(o) == [o EXCEPT !.err = NoErr] = ZeroRet

\* C22: CalcPos with fewer than four satellites returns the error "not
\* enough satellite" with x = y = z = dt = 0 and solves nothing; and every
\* error of constructBancroftMatrices or solveBancroftQuadraticEq is
\* returned with the four outputs zero.
C22_ErrorsReturnZero ==
    pc = "ret" =>
        /\ Len(satDatas) < MinSats =>
              /\ ret.err = ErrNotEnough
              /\ IsZero4(ret)
              /\ mats.B = NilMat
              /\ quad = ZeroQuad
        /\ ~IsNil(mats.err) => ret.err = mats.err /\ quad = ZeroQuad
        /\ ~IsNil(quad.err) => ret.err = quad.err
        /\ ~IsNil(ret.err) => IsZero4(ret)
        /\ IsNil(ret.err) => IsNil(mats.err) /\ IsNil(quad.err)

\* CalcPos has returned for three satellites
C22_Witness ==
    /\ pc = "ret"
    /\ Len(satDatas) = MinSats - 1
    /\ ~IsNil(ret.err)
    /\ IsZero4(ret)

\* CalcPos has returned the error of Inverse for four satellites
C22_WitnessSingular ==
    /\ pc = "ret"
    /\ Len(satDatas) = MinSats
    /\ ret.err = ErrCondition
    /\ IsZero4(ret)

\* CalcPos has returned the error of generalizedInverse
C22_WitnessGeneralized ==
    /\ pc = "ret"
    /\ Len(satDatas) > MinSats
    /\ ret.err = ErrCondition

\* CalcPos has returned a finite solution
C22_WitnessSolved ==
    /\ pc = "ret"
    /\ IsNil(ret.err)
    /\ ret.x.finite

\* CalcPos has returned nil with values that are not finite
C22_WitnessNonFinite ==
    /\ pc = "ret"
    /\ IsNil(ret.err)
    /\ ~ret.x.finite

====
